---- MODULE Spec2Model ----
(***************************************************************************)
(* Model of pyxnat/core/archive.py: the path translator of XNATArchive,    *)
(* the direct-access archive (LocalXNATArchive) and the incremental        *)
(* mirror (MirrorXNATArchive).                                             *)
(*                                                                         *)
(* A path is a Python str, modelled as a sequence of one-character         *)
(* strings, so that startswith, slicing and os.path.join act on characters *)
(* as they do in the code.  None and '' are both the empty sequence: the   *)
(* code only ever tests these values for truth (`if archive_root`,         *)
(* `not self.archive_root`, `if dest_dir`, `dest_dir or '.'`).             *)
(***************************************************************************)
EXTENDS Integers, Sequences, FiniteSets, TLC

VARIABLES
    strategy,      \* which class was constructed: "base", "local" or "mirror"
    rootdir,       \* XNATArchive.rootdir
    archive_root,  \* XNATArchive.archive_root
    rootlen,       \* XNATArchive.rootlen
    resource,      \* the Resource handle the callers pass (collaborator view)
    fs,            \* the local filesystem: path -> node
    last,          \* the record of the last completed call
    fetched,       \* per file of the resource: successful File fetches so far
    populated,     \* a get_resource(extract=True) call has returned normally
    race           \* where each concurrent caller stands inside its call

vars ==
    <<strategy, rootdir, archive_root, rootlen, resource, fs, last, fetched,
      populated, race>>

(***************************************************************************)
(* Bounds of the model.                                                    *)
(***************************************************************************)
MaxLen == 4        \* longest archive path handed to local_path in SpecPath
MaxFiles == 2      \* most files in the resource's file list
MaxFetch == 2      \* calls stop once a file was fetched this often

None == <<>>

(***************************************************************************)
(* Python str and os.path (posixpath) operations.                          *)
(***************************************************************************)
Truthy(s) == s # <<>>

StartsWith(s, prefix) ==
    /\ Len(prefix) <= Len(s)
    /\ SubSeq(s, 1, Len(prefix)) = prefix

\* s[n:]
SliceFrom(s, n) == SubSeq(s, n + 1, Len(s))

IsAbs(p) == Len(p) > 0 /\ p[1] = "/"

\* os.path.join(a, b): an absolute b discards a
PathJoin(a, b) ==
    IF IsAbs(b) THEN b
    ELSE IF a = <<>> \/ a[Len(a)] = "/" THEN a \o b
    ELSE a \o <<"/">> \o b

\* index of the last "/" of p, 0 when there is none (p.rfind('/') + 1)
LastSlash(p) ==
    LET idx == {i \in 1..Len(p) : p[i] = "/"}
    IN  IF idx = {} THEN 0 ELSE CHOOSE i \in idx : \A j \in idx : j <= i

RECURSIVE RStripSlash(_)
RStripSlash(p) ==
    IF p # <<>> /\ p[Len(p)] = "/" THEN RStripSlash(SubSeq(p, 1, Len(p) - 1))
    ELSE p

AllSlashes(p) == \A i \in 1..Len(p) : p[i] = "/"

\* os.path.dirname(p)
Dirname(p) ==
    LET head == SubSeq(p, 1, LastSlash(p))
    IN  IF head # <<>> /\ ~AllSlashes(head) THEN RStripSlash(head) ELSE head

\* os.path.basename(p)
Basename(p) == SliceFrom(p, LastSlash(p))

\* p.split('/') without the empty components and '.', as normpath leaves it
RECURSIVE SplitFrom(_, _, _)
SplitFrom(p, i, cur) ==
    IF i > Len(p)
    THEN IF cur = <<>> \/ cur = <<".">> THEN <<>> ELSE <<cur>>
    ELSE IF p[i] = "/"
         THEN (IF cur = <<>> \/ cur = <<".">> THEN <<>> ELSE <<cur>>)
              \o SplitFrom(p, i + 1, <<>>)
         ELSE SplitFrom(p, i + 1, Append(cur, p[i]))

Split(p) == SplitFrom(p, 1, <<>>)

RECURSIVE JoinParts(_)
JoinParts(parts) ==
    IF parts = <<>> THEN <<>>
    ELSE IF Len(parts) = 1 THEN parts[1]
    ELSE parts[1] \o <<"/">> \o JoinParts(Tail(parts))

\* length of the common prefix of two component lists
RECURSIVE CommonLen(_, _)
CommonLen(a, b) ==
    IF a # <<>> /\ b # <<>> /\ a[1] = b[1]
    THEN 1 + CommonLen(Tail(a), Tail(b))
    ELSE 0

\* os.path.relpath(path, start)
Relpath(path, start) ==
    LET pl == Split(path)
        sl == Split(start)
        i == CommonLen(pl, sl)
        ups == [k \in 1..(Len(sl) - i) |-> <<".", ".">>]
        rel == ups \o SubSeq(pl, i + 1, Len(pl))
    IN  IF rel = <<>> THEN <<".">> ELSE JoinParts(rel)

(***************************************************************************)
(* XNATArchive.__init__ and XNATArchive.local_path.                        *)
(***************************************************************************)
RootLenOf(aroot) == IF Truthy(aroot) THEN Len(aroot) ELSE 0

Ok(v) == [fault |-> "none", ret |-> v]
Raise(kind) == [fault |-> kind, ret |-> <<>>]

\* The else branch evaluates  '... %s ... %s' % archive_path  before
\* ValueError is ever called: one str for two %s raises TypeError.
MismatchFault == Raise("TypeError")

\* XNATArchive.local_path

local_path(rd, aroot, rlen, archive_path) ==
    IF ~Truthy(aroot)
    THEN Ok(PathJoin(rd, archive_path))
    ELSE IF StartsWith(archive_path, aroot)
         THEN Ok(PathJoin(rd, SliceFrom(archive_path, rlen)))
         ELSE MismatchFault

(***************************************************************************)
(* The local filesystem.  fs maps each existing path to its node: a        *)
(* directory, a regular file holding the data of one server file, or a zip *)
(* file holding the list of its entries <<name, data>>, still open for     *)
(* writing or closed.                                                      *)
(***************************************************************************)
DirNode == [kind |-> "dir", data |-> <<>>, entries |-> <<>>, open |-> FALSE]
FileNode(d) == [kind |-> "file", data |-> d, entries |-> <<>>, open |-> FALSE]
ZipNode(es) == [kind |-> "zip", data |-> <<>>, entries |-> es, open |-> FALSE]
\* a zip between ZipFile(path, 'w') and its close()
ZipOpenNode(es) == [kind |-> "zip", data |-> <<>>, entries |-> es, open |-> TRUE]

Range(seq) == {seq[i] : i \in DOMAIN seq}

Exists(f, p) == p \in DOMAIN f
\* os.path.isfile
IsFile(f, p) == p \in DOMAIN f /\ f[p].kind # "dir"
\* os.path.isdir
IsDir(f, p) == p \in DOMAIN f /\ f[p].kind = "dir"

\* the directories above p, nearest first, up to "/" or the relative top
RECURSIVE Ancestors(_)
Ancestors(p) ==
    LET d == Dirname(p)
    IN  IF d = p \/ d = <<>> THEN {} ELSE {d} \cup Ancestors(d)

\* a file can be created at p, making its parent directories as needed
CanCreate(f, p) ==
    /\ ~IsDir(f, p)
    /\ \A d \in Ancestors(p) : ~IsFile(f, d)

Put(f, p, node) == (p :> node) @@ f

\* makedirs of every missing directory above p, then p itself
MakeDirs(f, ps) ==
    LET ds == {d \in ps \cup UNION {Ancestors(p) : p \in ps} : ~Exists(f, d)}
    IN  [d \in ds |-> DirNode] @@ f

\* a download writes p, creating its parent directories as needed
WriteFile(f, p, node) == Put(MakeDirs(f, Ancestors(p)), p, node)

\* open(dst, 'wb') succeeds: dst is no directory and its parent is one
CanOpenForWrite(f, p) ==
    /\ ~IsDir(f, p)
    /\ (Dirname(p) = <<>> \/ IsDir(f, Dirname(p)))

\* the paths strictly below directory d
Below(f, d) == {p \in DOMAIN f : StartsWith(p, d \o <<"/">>)}

(***************************************************************************)
(* The collaborators: File and Resource handles (pyxnat's resources        *)
(* module) as the archive sees them.                                       *)
(***************************************************************************)
\* File: server_path, and local_path == archive.local_path(server_path)
FileObj(sp, rd, aroot) ==
    [server_path |-> sp,
     local_path |-> local_path(rd, aroot, RootLenOf(aroot), sp).ret]

\* uri_last(uri): the last segment of the URI
uri_last(uri) == Basename(RStripSlash(uri))

\* File._get(dest): download this file to dest, creating parent directories
FileFetch(f, fileobj, dest) == WriteFile(f, dest, FileNode(fileobj.server_path))

\* Resource._get(dest, extract=True): materialize a directory at dest and
\* report the materialized paths, in file-list order
BulkPaths(res, dest) ==
    [i \in 1..Len(res.files) |->
        PathJoin(dest, Relpath(res.files[i].server_path, res.root))]

RECURSIVE WriteAll(_, _, _)
WriteAll(f, paths, datas) ==
    IF paths = <<>> THEN f
    ELSE WriteAll(WriteFile(f, Head(paths), FileNode(Head(datas))),
                  Tail(paths), Tail(datas))

BulkExtract(f, res, dest) ==
    WriteAll(MakeDirs(f, {dest}), BulkPaths(res, dest),
             [i \in 1..Len(res.files) |-> res.files[i].server_path])

BulkCanExtract(f, res, dest) ==
    /\ ~IsFile(f, dest)
    /\ \A d \in Ancestors(dest) : ~IsFile(f, d)
    /\ \A i \in 1..Len(res.files) : CanCreate(f, BulkPaths(res, dest)[i])

\* Resource._get(dest, extract=False): download the server's zip into dest;
\* its entries are named <resource directory>/<path below it>
ServerZipEntries(res) ==
    [i \in 1..Len(res.files) |->
        <<PathJoin(Basename(res.root),
                   Relpath(res.files[i].server_path, res.root)),
          res.files[i].server_path>>]

BulkZipPath(res, dest) ==
    PathJoin(dest, uri_last(res.uri) \o <<".", "z", "i", "p">>)

(***************************************************************************)
(* The record of a call: what was asked, what came back, which collaborator*)
(* fetches it invoked, and the filesystem it started from.                 *)
(***************************************************************************)
EmptyFs == [p \in {} |-> DirNode]

Call(op, file, extract, dest, arg, out, pre, was_populated) ==
    [op |-> op, file |-> file, extract |-> extract, dest |-> dest,
     arg |-> arg, fault |-> out.fault, ret |-> out.ret, rets |-> out.rets,
     fetches |-> out.fetches, bulk |-> out.bulk, pre |-> pre,
     was_populated |-> was_populated]

\* the outcome of a call: the filesystem it leaves, the fault it raised or
\* the value it returned (a path in ret, a list of paths in rets), and the
\* File._get and Resource._get invocations it made
Out(f, fault, ret, rets, fetches, bulk) ==
    [fs |-> f, fault |-> fault, ret |-> ret, rets |-> rets,
     fetches |-> fetches, bulk |-> bulk]

NoCall ==
    Call("none", 0, FALSE, <<>>, <<>>,
         Out(EmptyFs, "none", <<>>, <<>>, <<>>, <<>>), EmptyFs, FALSE)

\* the callers that may run a mirror call at the same time, and a caller
\* that is in no call; overlap is the set of files for which a caller saw
\* the file absent while another caller that had seen the same was yet to
\* fetch it
Callers == {"c1", "c2"}

Idle == [op |-> "none", pc |-> "idle", i |-> 0]

NoRace == [of |-> [c \in Callers |-> Idle], overlap |-> {}]

NoResource ==
    [urn |-> <<>>, uri |-> <<>>, label |-> <<>>, root |-> <<>>,
     files |-> <<>>, descs |-> <<>>]

(***************************************************************************)
(* SpecPath: an XNATArchive is constructed and local_path is called on     *)
(* every archive path of at most MaxLen characters.                        *)
(***************************************************************************)
PathChars == {"/", "a", "x"}
Paths == UNION {[1..n -> PathChars] : n \in 0..MaxLen}
RootDirs == {<<"/", "m">>, <<"/", "m", "/">>, <<"/">>}
ArchiveRoots == {None, <<"/", "a">>, <<"/", "a", "/">>, <<"a">>}

InitPath ==
    /\ strategy = "base"
    /\ rootdir \in RootDirs
    /\ archive_root \in ArchiveRoots
    /\ rootlen = RootLenOf(archive_root)
    /\ resource = NoResource
    /\ fs = EmptyFs
    /\ last = NoCall
    /\ fetched = <<>>
    /\ populated = FALSE
    /\ race = NoRace

CallLocalPath ==
    \E p \in Paths :
        LET r == local_path(rootdir, archive_root, rootlen, p)
        IN  /\ last' = Call("local_path", 0, FALSE, <<>>, p,
                            Out(fs, r.fault, r.ret, <<>>, <<>>, <<>>), fs,
                            FALSE)
            /\ UNCHANGED <<strategy, rootdir, archive_root, rootlen,
                           resource, fs, fetched, populated, race>>

NextPath == CallLocalPath

SpecPath == InitPath /\ [][NextPath]_vars

\* what is left of p after its first rootlen characters
Remainder(p) == SliceFrom(p, rootlen)

EndsWith(s, suffix) ==
    /\ Len(suffix) <= Len(s)
    /\ SliceFrom(s, Len(s) - Len(suffix)) = suffix

\* C3: with an archive root configured, local_path(p) of a path p that
\* starts with the archive root is the local root directory followed by the
\* remainder of p, and so lies under the local root, also when the remainder
\* begins with "/".
C3_UnderLocalRoot ==
    (/\ last.op = "local_path"
     /\ Truthy(archive_root)
     /\ StartsWith(last.arg, archive_root))
    => /\ last.fault = "none"
       /\ StartsWith(last.ret, rootdir)
       /\ EndsWith(last.ret, Remainder(last.arg))

\* C4: with a non-empty archive root configured, local_path(p) of a path p
\* that does not start with the archive root returns no path and raises the
\* configuration fault that reports the mismatch (the ValueError of the
\* raise statement), leaving rootdir, archive_root and rootlen as they were.
C4_MismatchIsConfigurationFault ==
    (/\ last.op = "local_path"
     /\ Truthy(archive_root)
     /\ ~StartsWith(last.arg, archive_root))
    => /\ last.fault = "ValueError"
       /\ last.ret = <<>>
       /\ rootlen = Len(archive_root)

(***************************************************************************)
(* The resource the callers hold.  Its server directory is /a/r; the       *)
(* parent's xnat:file descriptors name the catalog /a/r/c under label r.   *)
(***************************************************************************)
ServerRoot == <<"/", "a", "/", "r">>
AllServerPaths ==
    << ServerRoot \o <<"/", "x">>,
       ServerRoot \o <<"/", "s", "/", "y">>,
       ServerRoot \o <<"/", "z">> >>
ResourceLabel == <<"r">>
ResourceUrn == <<"u">>
ResourceUri == <<"/", "d", "/", "u">>
DescOfResource == [label |-> ResourceLabel, URI |-> ServerRoot \o <<"/", "c">>]
DescOfOther == [label |-> <<"q">>, URI |-> <<"/", "a", "/", "q", "/", "c">>]
DescChoices == {<<DescOfOther>>, <<DescOfOther, DescOfResource>>}
ZipExt == <<".", "z", "i", "p">>
DestDir == <<"/", "o">>
DestDirs == {None, DestDir}

ResourceOf(n, descs, rd, aroot) ==
    [urn |-> ResourceUrn, uri |-> ResourceUri, label |-> ResourceLabel,
     root |-> ServerRoot,
     files |-> [i \in 1..n |-> FileObj(AllServerPaths[i], rd, aroot)],
     descs |-> descs]

LocalPaths(res) == [i \in 1..Len(res.files) |-> res.files[i].local_path]

\* XNATArchive._get_resource_server_root
_get_resource_server_root(res) ==
    LET file_uris == SelectSeq(res.descs, LAMBDA d : d.label = res.label)
    IN  IF file_uris = <<>> THEN Raise("IndexError")
        ELSE Ok(Dirname(file_uris[1].URI))

\* XNATArchive._get_resource_local_root
_get_resource_local_root(res) ==
    LET sr == _get_resource_server_root(res)
    IN  IF sr.fault # "none" THEN sr
        ELSE local_path(rootdir, archive_root, rootlen, sr.ret)

(***************************************************************************)
(* LocalXNATArchive.                                                       *)
(***************************************************************************)
\* shutil.copyfile(src, dst) can run: src is a file, dst can be opened
CanCopyFile(f, src, dst) == IsFile(f, src) /\ CanOpenForWrite(f, dst)

\* the loop of LocalXNATArchive._copy_resource from file i on
RECURSIVE LocalCopyLoop(_, _, _, _, _, _)
LocalCopyLoop(f, res, resource_root, dest_dir, i, paths) ==
    IF i > Len(res.files) THEN Out(f, "none", <<>>, paths, <<>>, <<>>)
    ELSE LET fo == res.files[i]
             path == PathJoin(dest_dir, Relpath(fo.server_path, resource_root))
         IN  IF ~CanCopyFile(f, fo.local_path, path)
             THEN Out(f, "IOError", <<>>, <<>>, <<>>, <<>>)
             ELSE LocalCopyLoop(Put(f, path, f[fo.local_path]), res,
                                resource_root, dest_dir, i + 1,
                                Append(paths, path))

\* _copy_resource that downloads a missing source file as the mirror does
RECURSIVE LocalFetchMissing(_, _, _, _)
LocalFetchMissing(f, res, i, fetches) ==
    IF i > Len(res.files) THEN [fs |-> f, fetches |-> fetches]
    ELSE LET fo == res.files[i]
         IN  IF IsFile(f, fo.local_path) \/ ~CanCreate(f, fo.local_path)
             THEN LocalFetchMissing(f, res, i + 1, fetches)
             ELSE LocalFetchMissing(FileFetch(f, fo, fo.local_path), res, i + 1,
                                    Append(fetches, [path |-> fo.local_path,
                                                     ok |-> TRUE]))

Local_copy_resource_fetching(f, res, dest_dir) ==
    LET rr == _get_resource_server_root(res)
        filled == LocalFetchMissing(f, res, 1, <<>>)
        out == LocalCopyLoop(filled.fs, res, rr.ret, dest_dir, 1, <<>>)
    IN  IF rr.fault # "none"
        THEN Out(f, rr.fault, <<>>, <<>>, <<>>, <<>>)
        ELSE [out EXCEPT !.fetches = filled.fetches]

Local_copy_resource(f, res, dest_dir) ==
    LET rr == _get_resource_server_root(res)
    IN  IF rr.fault # "none"
        THEN Out(f, rr.fault, <<>>, <<>>, <<>>, <<>>)
        ELSE LocalCopyLoop(f, res, rr.ret, dest_dir, 1, <<>>)

\* the name ZipFile.write stores: leading separators are stripped
RECURSIVE ArcName(_)
ArcName(name) == IF IsAbs(name) THEN ArcName(Tail(name)) ELSE name

\* leaving a with block without closing the zip
ZipExit_leftopen(out, zippath) == out

\* ZipFile.__exit__: leaving the with block closes the zip, fault or not
ZipExit(out, zippath) ==
    [out EXCEPT !.fs = [out.fs EXCEPT ![zippath].open = FALSE]]

\* the loop of LocalXNATArchive._zip_resource from file i on, line 83 read as
\* `with zipfile.ZipFile(zip_location, 'w') as fzip:`
RECURSIVE LocalZipLoop(_, _, _, _, _, _)
LocalZipLoop(f, res, resource_root, zip_location, i, entries) ==
    IF i > Len(res.files)
    THEN Out(Put(f, zip_location, ZipOpenNode(entries)), "none", zip_location,
             <<>>, <<>>, <<>>)
    ELSE LET fo == res.files[i]
             name == PathJoin(res.urn, Relpath(fo.server_path, resource_root))
         IN  IF ~IsFile(f, fo.local_path)
             THEN Out(Put(f, zip_location, ZipOpenNode(entries)), "OSError",
                      <<>>, <<>>, <<>>, <<>>)
             ELSE LocalZipLoop(f, res, resource_root, zip_location, i + 1,
                               Append(entries,
                                      <<ArcName(name), f[fo.local_path].data>>))

\* LocalXNATArchive._zip_resource
Local_zip_resource(f, res, dest_dir) ==
    LET rr == _get_resource_server_root(res)
        zip_location == PathJoin(dest_dir, res.urn \o ZipExt)
    IN  IF rr.fault # "none"
        THEN Out(f, rr.fault, <<>>, <<>>, <<>>, <<>>)
        ELSE IF ~CanOpenForWrite(f, zip_location)
        THEN Out(f, "IOError", <<>>, <<>>, <<>>, <<>>)
        ELSE ZipExit(LocalZipLoop(f, res, rr.ret, zip_location, 1, <<>>),
                     zip_location)

\* get_file that looks for the file and returns nothing when it is missing
Local_get_file_checking(f, fileobj) ==
    IF IsFile(f, fileobj.local_path)
    THEN Out(f, "none", fileobj.local_path, <<>>, <<>>, <<>>)
    ELSE Out(f, "IOError", <<>>, <<>>, <<>>, <<>>)

\* LocalXNATArchive.get_file
Local_get_file(f, fileobj) ==
    Out(f, "none", fileobj.local_path, <<>>, <<>>, <<>>)

\* LocalXNATArchive.get_resource
Local_get_resource(f, res, extract, dest_dir) ==
    IF extract
    THEN IF Truthy(dest_dir)
         THEN Local_copy_resource(f, res, dest_dir)
         ELSE Out(f, "none", <<>>, LocalPaths(res), <<>>, <<>>)
    ELSE Local_zip_resource(f, res, IF Truthy(dest_dir) THEN dest_dir ELSE <<".">>)

(***************************************************************************)
(* MirrorXNATArchive.  The environment of a call is env: env.failAt = k > 0*)
(* makes the k-th collaborator fetch of the call fail (a network fault),   *)
(* env.denied makes os.makedirs fail for a directory it would create.      *)
(***************************************************************************)
Fetched(path, ok) == [path |-> path, ok |-> ok]
Bulk(dest, extract, ok) == [dest |-> dest, extract |-> extract, ok |-> ok]

\* get_file that downloads without looking whether the file is there
Mirror_get_file_always(f, fileobj, env) ==
    IF env.failAt = 1 \/ ~CanCreate(f, fileobj.local_path)
    THEN Out(f, "FetchError", <<>>, <<>>,
             <<Fetched(fileobj.local_path, FALSE)>>, <<>>)
    ELSE Out(FileFetch(f, fileobj, fileobj.local_path), "NameError",
             <<>>, <<>>, <<Fetched(fileobj.local_path, TRUE)>>, <<>>)

\* MirrorXNATArchive.get_file: `return local_path` names no variable of the
\* method or the module, so the call ends in NameError once the file is there
Mirror_get_file(f, fileobj, env) ==
    IF ~IsFile(f, fileobj.local_path)
    THEN IF env.failAt = 1 \/ ~CanCreate(f, fileobj.local_path)
         THEN Out(f, "FetchError", <<>>, <<>>,
                  <<Fetched(fileobj.local_path, FALSE)>>, <<>>)
         ELSE Out(FileFetch(f, fileobj, fileobj.local_path), "NameError",
                  <<>>, <<>>, <<Fetched(fileobj.local_path, TRUE)>>, <<>>)
    ELSE Out(f, "NameError", <<>>, <<>>, <<>>, <<>>)

\* the loop of MirrorXNATArchive._fill_resource_holes from file i on
RECURSIVE FillLoop(_, _, _, _, _, _)
FillLoop(f, res, i, paths, fetches, env) ==
    IF i > Len(res.files) THEN Out(f, "none", <<>>, paths, fetches, <<>>)
    ELSE LET fo == res.files[i]
         IN  IF ~IsFile(f, fo.local_path)
             THEN IF env.failAt = Len(fetches) + 1 \/ ~CanCreate(f, fo.local_path)
                  THEN Out(f, "FetchError", <<>>, <<>>,
                           Append(fetches, Fetched(fo.local_path, FALSE)), <<>>)
                  ELSE FillLoop(FileFetch(f, fo, fo.local_path), res, i + 1,
                                Append(paths, fo.local_path),
                                Append(fetches, Fetched(fo.local_path, TRUE)),
                                env)
             ELSE FillLoop(f, res, i + 1, Append(paths, fo.local_path),
                           fetches, env)

\* _fill_resource_holes that lists only the files it had to fetch
_fill_resource_holes_fetched_only(f, res, env) ==
    LET o == FillLoop(f, res, 1, <<>>, <<>>, env)
    IN  IF o.fault # "none" THEN o
        ELSE [o EXCEPT !.rets = [k \in 1..Len(o.fetches) |-> o.fetches[k].path]]

\* MirrorXNATArchive._fill_resource_holes
_fill_resource_holes(f, res, env) == FillLoop(f, res, 1, <<>>, <<>>, env)

\* resource._get(resource_root, extract=True)
BulkFetchExtract(f, res, dest, env) ==
    IF env.failAt = 1 \/ ~BulkCanExtract(f, res, dest)
    THEN Out(f, "FetchError", <<>>, <<>>, <<>>, <<Bulk(dest, TRUE, FALSE)>>)
    ELSE Out(BulkExtract(f, res, dest), "none", <<>>, BulkPaths(res, dest),
             <<>>, <<Bulk(dest, TRUE, TRUE)>>)

\* the choice made on the root being a directory instead
ResourceFilesAt_isdir(f, res, resource_root, env) ==
    IF IsDir(f, resource_root)
    THEN _fill_resource_holes(f, res, env)
    ELSE BulkFetchExtract(f, res, resource_root, env)

\* MirrorXNATArchive._get_resource_files, resource_root already resolved
ResourceFilesAt(f, res, resource_root, env) ==
    IF IsFile(f, resource_root)
    THEN _fill_resource_holes(f, res, env)
    ELSE BulkFetchExtract(f, res, resource_root, env)

\* MirrorXNATArchive._get_resource_files
_get_resource_files(f, res, env) ==
    LET rr == _get_resource_local_root(res)
    IN  IF rr.fault # "none"
        THEN Out(f, rr.fault, <<>>, <<>>, <<>>, <<>>)
        ELSE ResourceFilesAt(f, res, rr.ret, env)

\* a copytree that takes any source, a file too (copying nothing from it)
CanCopyTree_anysrc(f, src, dst) ==
    /\ ~Exists(f, dst)
    /\ \A d \in Ancestors(dst) : ~IsFile(f, d)

\* shutil.copytree(src, dst): src must be a directory and dst must not exist
CanCopyTree(f, src, dst) ==
    /\ IsDir(f, src)
    /\ ~Exists(f, dst)
    /\ \A d \in Ancestors(dst) : ~IsFile(f, d)

\* a copy that moves the tree: what was below src is gone afterwards
CopyTree_moving(f, src, dst) ==
    LET made == MakeDirs(f, {dst})
        copied == [p \in {dst \o SliceFrom(q, Len(src)) : q \in Below(f, src)} |->
                      f[src \o SliceFrom(p, Len(dst))]] @@ made
    IN  [p \in DOMAIN copied \ Below(f, src) |-> copied[p]]

CopyTree(f, src, dst) ==
    LET made == MakeDirs(f, {dst})
    IN  [p \in {dst \o SliceFrom(q, Len(src)) : q \in Below(f, src)} |->
            f[src \o SliceFrom(p, Len(dst))]] @@ made

\* MirrorXNATArchive._copy_resource
Mirror_copy_resource(f, res, dest_dir, env) ==
    LET rr == _get_resource_local_root(res)
        resource_root == rr.ret
        copied == CopyTree(f, resource_root, dest_dir)
        got == ResourceFilesAt(copied, res, resource_root, env)
    IN  IF rr.fault # "none"
        THEN Out(f, rr.fault, <<>>, <<>>, <<>>, <<>>)
        ELSE IF ~CanCopyTree(f, resource_root, dest_dir)
        THEN Out(f, "OSError", <<>>, <<>>, <<>>, <<>>)
        ELSE IF got.fault # "none" THEN got
        ELSE [got EXCEPT !.rets =
                [i \in 1..Len(got.rets) |->
                    PathJoin(dest_dir, Relpath(got.rets[i], resource_root))]]

\* os.makedirs(dest_dir) inside try/except OSError: pass
TryMakeDirs(f, dest_dir, env) ==
    IF Exists(f, dest_dir) \/ env.denied
       \/ \E d \in Ancestors(dest_dir) : IsFile(f, d)
    THEN f
    ELSE MakeDirs(f, {dest_dir})

\* zipfile.ZipFile(zippath, 'w') over the paths that hole-filling returned
MirrorZipEntries(f, paths, resource_root) ==
    [i \in 1..Len(paths) |->
        <<ArcName(Relpath(paths[i], resource_root)), f[paths[i]].data>>]

\* zipfile.ZipFile(zippath, 'r').extractall(path=target)
ExtractTargets(f, zippath, target) ==
    {PathJoin(target, ArcName(e[1])) : e \in Range(f[zippath].entries)}

ExtractAll(f, zippath, target) ==
    LET names == ExtractTargets(f, zippath, target)
        dataOf(p) == (CHOOSE e \in Range(f[zippath].entries) :
                         PathJoin(target, ArcName(e[1])) = p)[2]
    IN  [p \in names |-> FileNode(dataOf(p))]
        @@ MakeDirs(f, {target} \cup UNION {Ancestors(p) : p \in names})

\* resource._get(dest_dir, extract=False)
BulkFetchZip(f, res, dest_dir, env) ==
    IF env.failAt = 1 \/ ~CanOpenForWrite(f, BulkZipPath(res, dest_dir))
    THEN Out(f, "FetchError", <<>>, <<>>, <<>>, <<Bulk(dest_dir, FALSE, FALSE)>>)
    ELSE Out(Put(f, BulkZipPath(res, dest_dir), ZipNode(ServerZipEntries(res))),
             "none", BulkZipPath(res, dest_dir), <<>>, <<>>,
             <<Bulk(dest_dir, FALSE, TRUE)>>)

\* _zip_resource that returns the fetched zip without unpacking it
Mirror_zip_resource_noextract(f, res, dest_dir, env) ==
    LET rr == _get_resource_local_root(res)
        resource_root == rr.ret
        f1 == TryMakeDirs(f, dest_dir, env)
        filled == _fill_resource_holes(f1, res, env)
        zippath == PathJoin(dest_dir, uri_last(res.uri) \o ZipExt)
    IN  IF rr.fault # "none"
        THEN Out(f, rr.fault, <<>>, <<>>, <<>>, <<>>)
        ELSE IF IsFile(f1, resource_root)
        THEN IF filled.fault # "none" THEN filled
             ELSE IF ~CanOpenForWrite(filled.fs, zippath)
             THEN [filled EXCEPT !.fault = "IOError", !.rets = <<>>]
             ELSE ZipExit(
                    [filled EXCEPT
                       !.fs = Put(filled.fs, zippath,
                                  ZipOpenNode(MirrorZipEntries(
                                      filled.fs, filled.rets, resource_root))),
                       !.ret = zippath, !.rets = <<>>],
                    zippath)
        ELSE BulkFetchZip(f1, res, dest_dir, env)

\* MirrorXNATArchive._zip_resource
Mirror_zip_resource(f, res, dest_dir, env) ==
    LET rr == _get_resource_local_root(res)
        resource_root == rr.ret
        f1 == TryMakeDirs(f, dest_dir, env)
        filled == _fill_resource_holes(f1, res, env)
        zippath == PathJoin(dest_dir, uri_last(res.uri) \o ZipExt)
        got == BulkFetchZip(f1, res, dest_dir, env)
        target == Dirname(resource_root)
    IN  IF rr.fault # "none"
        THEN Out(f, rr.fault, <<>>, <<>>, <<>>, <<>>)
        ELSE IF IsFile(f1, resource_root)
        THEN IF filled.fault # "none" THEN filled
             ELSE IF ~CanOpenForWrite(filled.fs, zippath)
             THEN [filled EXCEPT !.fault = "IOError", !.rets = <<>>]
             ELSE ZipExit(
                    [filled EXCEPT
                       !.fs = Put(filled.fs, zippath,
                                  ZipOpenNode(MirrorZipEntries(
                                      filled.fs, filled.rets, resource_root))),
                       !.ret = zippath, !.rets = <<>>],
                    zippath)
        ELSE IF got.fault # "none" THEN got
        ELSE IF \E p \in ExtractTargets(got.fs, got.ret, target) :
                    ~CanCreate(got.fs, p)
        THEN [got EXCEPT !.fault = "IOError", !.ret = <<>>]
        ELSE [got EXCEPT !.fs = ExtractAll(got.fs, got.ret, target)]

\* MirrorXNATArchive.get_resource
Mirror_get_resource(f, res, extract, dest_dir, env) ==
    IF extract
    THEN IF Truthy(dest_dir)
         THEN Mirror_copy_resource(f, res, dest_dir, env)
         ELSE _get_resource_files(f, res, env)
    ELSE Mirror_zip_resource(f, res,
                             IF Truthy(dest_dir) THEN dest_dir ELSE <<".">>, env)

(***************************************************************************)
(* SpecLocal: a LocalXNATArchive serves get_file and get_resource calls.   *)
(* The archive's files lie under the local root, any subset of them        *)
(* missing; the destination directory /o is absent, empty, or holds the    *)
(* sub-directory s.                                                        *)
(***************************************************************************)
LocalConfigs ==
    { [rootdir |-> <<"/">>, archive_root |-> None],
      [rootdir |-> <<"/", "m">>, archive_root |-> <<"/", "a", "/">>] }

FileCounts == {n \in 0..MaxFiles : n <= Len(AllServerPaths)}

BaseFs == MakeDirs(EmptyFs, {<<"/">>, <<".">>})

\* the files of `present` materialized at their local paths
RECURSIVE WithFiles(_, _, _)
WithFiles(f, res, present) ==
    IF present = {} THEN f
    ELSE LET i == CHOOSE k \in present : TRUE
         IN  WithFiles(WriteFile(f, res.files[i].local_path,
                                 FileNode(res.files[i].server_path)),
                       res, present \ {i})

DestStates == {{}, {DestDir}, {DestDir \o <<"/", "s">>}}

InitLocal ==
    /\ strategy = "local"
    /\ \E c \in LocalConfigs :
        /\ rootdir = c.rootdir
        /\ archive_root = c.archive_root
    /\ rootlen = RootLenOf(archive_root)
    /\ \E n \in FileCounts, descs \in DescChoices :
        resource = ResourceOf(n, descs, rootdir, archive_root)
    /\ \E present \in SUBSET (1..Len(resource.files)), dst \in DestStates :
        fs = MakeDirs(
               WithFiles(
                 MakeDirs(BaseFs,
                          {local_path(rootdir, archive_root, rootlen,
                                      ServerRoot).ret}),
                 resource, present),
               dst)
    /\ last = NoCall
    /\ fetched = [i \in 1..Len(resource.files) |-> 0]
    /\ populated = FALSE
    /\ race = NoRace

\* the call's outcome becomes the state: the filesystem it left, its record,
\* one more fetch counted for each file whose File._get succeeded, and
\* whether an extracting get_resource has by now returned
Fetches(out) ==
    [i \in 1..Len(resource.files) |->
        Cardinality({k \in 1..Len(out.fetches) :
                        /\ out.fetches[k].path = resource.files[i].local_path
                        /\ out.fetches[k].ok})]

Commit(op, file, extract, dest, out) ==
    /\ fs' = out.fs
    /\ last' = Call(op, file, extract, dest, <<>>, out, fs, populated)
    /\ fetched' = [i \in 1..Len(resource.files) |->
                      fetched[i] + Fetches(out)[i]]
    /\ populated' = (\/ populated
                     \/ op = "get_resource" /\ extract /\ out.fault = "none")
    /\ UNCHANGED <<strategy, rootdir, archive_root, rootlen, resource, race>>

LocalGetFile ==
    \E i \in 1..Len(resource.files) :
        Commit("get_file", i, FALSE, <<>>,
               Local_get_file(fs, resource.files[i]))

LocalGetResource ==
    \E extract \in BOOLEAN, dest_dir \in DestDirs :
        Commit("get_resource", 0, extract, dest_dir,
               Local_get_resource(fs, resource, extract, dest_dir))

NextLocal == LocalGetFile \/ LocalGetResource

SpecLocal == InitLocal /\ [][NextLocal]_vars

(***************************************************************************)
(* SpecMirror: a MirrorXNATArchive serves get_file and get_resource calls. *)
(* The resource's local root starts absent, as a file (packed), or as a    *)
(* directory holding any subset of the resource's files, with or without a *)
(* file e that the resource does not list; /o is absent or an empty        *)
(* directory.  Nothing but the archive touches the filesystem.             *)
(***************************************************************************)
MirrorConfigs ==
    { [rootdir |-> <<"/", "m">>, archive_root |-> <<"/", "a", "/">>],
      [rootdir |-> <<"/">>, archive_root |-> None] }

LocalRootOf(rd, aroot) == local_path(rd, aroot, RootLenOf(aroot), ServerRoot).ret

MirrorStates(res, lr) ==
    {BaseFs, Put(MakeDirs(BaseFs, Ancestors(lr)), lr, ZipNode(<<>>))}
    \cup {WithFiles(MakeDirs(BaseFs, {lr}), res, present) :
            present \in SUBSET (1..Len(res.files))}
    \cup {WriteFile(WithFiles(MakeDirs(BaseFs, {lr}), res, present),
                    lr \o <<"/", "e">>, FileNode(<<"e">>)) :
            present \in SUBSET (1..Len(res.files))}

Envs(n) == [failAt : 0..n, denied : BOOLEAN]

InitMirror ==
    /\ strategy = "mirror"
    /\ \E c \in MirrorConfigs :
        /\ rootdir = c.rootdir
        /\ archive_root = c.archive_root
    /\ rootlen = RootLenOf(archive_root)
    /\ \E n \in FileCounts, descs \in DescChoices :
        resource = ResourceOf(n, descs, rootdir, archive_root)
    /\ \E m \in MirrorStates(resource, LocalRootOf(rootdir, archive_root)),
          dst \in {{}, {DestDir}} :
        fs = MakeDirs(m, dst)
    /\ last = NoCall
    /\ fetched = [i \in 1..Len(resource.files) |-> 0]
    /\ populated = FALSE
    /\ race = NoRace

FetchBudget == \A i \in 1..Len(resource.files) : fetched[i] < MaxFetch

MirrorGetFile ==
    /\ FetchBudget
    /\ \E i \in 1..Len(resource.files), env \in Envs(1) :
        Commit("get_file", i, FALSE, <<>>,
               Mirror_get_file(fs, resource.files[i], env))

MirrorGetResource ==
    /\ FetchBudget
    /\ \E extract \in BOOLEAN, dest_dir \in DestDirs,
          env \in Envs(Len(resource.files)) :
        Commit("get_resource", 0, extract, dest_dir,
               Mirror_get_resource(fs, resource, extract, dest_dir, env))

NextMirror == MirrorGetFile \/ MirrorGetResource

SpecMirror == InitMirror /\ [][NextMirror]_vars

(***************************************************************************)
(* The packed state with files to fill: the resource's descriptor names a  *)
(* catalog kept beside the data, in /a/k, whose local path is a file, while*)
(* any subset of the resource's files lies under the local /a/r.           *)
(***************************************************************************)
DescAside ==
    [label |-> ResourceLabel, URI |-> <<"/", "a", "/", "k", "/", "c">>]

PackedStates(res, lr, lk) ==
    {Put(WithFiles(MakeDirs(BaseFs, {lr}), res, present), lk, ZipNode(<<>>)) :
        present \in SUBSET (1..Len(res.files))}

InitMirrorAside ==
    /\ strategy = "mirror"
    /\ \E c \in MirrorConfigs :
        /\ rootdir = c.rootdir
        /\ archive_root = c.archive_root
    /\ rootlen = RootLenOf(archive_root)
    /\ \E n \in FileCounts :
        resource = ResourceOf(n, <<DescAside>>, rootdir, archive_root)
    /\ \E m \in PackedStates(resource, LocalRootOf(rootdir, archive_root),
                             _get_resource_local_root(resource).ret),
          dst \in {{}, {DestDir}} :
        fs = MakeDirs(m, dst)
    /\ last = NoCall
    /\ fetched = [i \in 1..Len(resource.files) |-> 0]
    /\ populated = FALSE
    /\ race = NoRace

(***************************************************************************)
(* SpecRace: two callers run MirrorXNATArchive.get_file and                *)
(* _fill_resource_holes on the same archive, each statement of a call a    *)
(* step of its own, so that the statements of the two calls interleave.    *)
(* The code takes no lock.  A fetch may fail (a network fault).            *)
(***************************************************************************)
\* a test that reports every file as missing
SeesAbsent_always(f, path) == TRUE

\* `not os.path.isfile(f.local_path)`
SeesAbsent(f, path) == ~IsFile(f, path)

RaceUnchanged ==
    UNCHANGED <<strategy, rootdir, archive_root, rootlen, resource, last,
                populated>>

\* the caller after it is done with file r.i: get_file is at its return,
\* _fill_resource_holes goes on with the next file of the loop
AfterFile(r) ==
    IF r.op = "_fill_resource_holes" /\ r.i < Len(resource.files)
    THEN [r EXCEPT !.i = r.i + 1, !.pc = "isfile"]
    ELSE [r EXCEPT !.pc = "return"]

\* a caller enters get_file(f) or _fill_resource_holes(resource)
RaceCall(c) ==
    /\ race.of[c].pc = "idle"
    /\ \/ \E i \in 1..Len(resource.files) :
            race' = [race EXCEPT !.of[c] =
                        [op |-> "get_file", pc |-> "isfile", i |-> i]]
       \/ race' = [race EXCEPT !.of[c] =
                      IF Len(resource.files) = 0
                      THEN [op |-> "_fill_resource_holes", pc |-> "return",
                            i |-> 0]
                      ELSE [op |-> "_fill_resource_holes", pc |-> "isfile",
                            i |-> 1]]
    /\ UNCHANGED <<fs, fetched>>
    /\ RaceUnchanged

\* the caller evaluates `if not os.path.isfile(f.local_path)`
RaceIsFile(c) ==
    LET r == race.of[c]
        absent == SeesAbsent(fs, resource.files[r.i].local_path)
        others == \E d \in Callers \ {c} :
                     race.of[d].pc = "_get" /\ race.of[d].i = r.i
    IN  /\ r.pc = "isfile"
        /\ race' = [of |-> [race.of EXCEPT ![c] =
                              IF absent THEN [r EXCEPT !.pc = "_get"]
                              ELSE AfterFile(r)],
                    overlap |-> IF absent /\ others
                                THEN race.overlap \cup {r.i}
                                ELSE race.overlap]
        /\ UNCHANGED <<fs, fetched>>
        /\ RaceUnchanged

\* the caller runs `f._get(f.local_path)`; a fault ends its call
RaceGet(c) ==
    LET r == race.of[c]
        fo == resource.files[r.i]
    IN  /\ r.pc = "_get"
        /\ \E ok \in BOOLEAN :
             IF ok /\ CanCreate(fs, fo.local_path)
             THEN /\ fs' = FileFetch(fs, fo, fo.local_path)
                  /\ fetched' = [fetched EXCEPT ![r.i] = @ + 1]
                  /\ race' = [race EXCEPT !.of[c] = AfterFile(r)]
             ELSE /\ race' = [race EXCEPT !.of[c] = [r EXCEPT !.pc = "return"]]
                  /\ UNCHANGED <<fs, fetched>>
        /\ RaceUnchanged

\* the call is over
RaceReturn(c) ==
    /\ race.of[c].pc = "return"
    /\ race' = [race EXCEPT !.of[c] = Idle]
    /\ UNCHANGED <<fs, fetched>>
    /\ RaceUnchanged

NextRace ==
    \E c \in Callers :
        RaceCall(c) \/ RaceIsFile(c) \/ RaceGet(c) \/ RaceReturn(c)

SpecRace == InitMirror /\ [][NextRace]_vars

(***************************************************************************)
(* SpecFill: the two helpers of the mirror, _fill_resource_holes and       *)
(* _get_resource_files, called on their own, from every mirror state.      *)
(***************************************************************************)
InitFill == InitMirror \/ InitMirrorAside

MirrorFillResourceHoles ==
    \E env \in Envs(Len(resource.files)) :
        Commit("_fill_resource_holes", 0, FALSE, <<>>,
               _fill_resource_holes(fs, resource, env))

MirrorGetResourceFiles ==
    \E env \in Envs(Len(resource.files)) :
        Commit("_get_resource_files", 0, FALSE, <<>>,
               _get_resource_files(fs, resource, env))

NextFill == MirrorFillResourceHoles \/ MirrorGetResourceFiles

SpecFill == InitFill /\ [][NextFill]_vars

(***************************************************************************)
(* SpecBoth: an archive of either strategy serves its callers.             *)
(***************************************************************************)
InitBoth == InitLocal \/ InitMirror \/ InitMirrorAside

LocalCalls == strategy = "local" /\ NextLocal

MirrorCalls == strategy = "mirror" /\ NextMirror

NextBoth == LocalCalls \/ MirrorCalls

SpecBoth == InitBoth /\ [][NextBoth]_vars

IsLocalCall(op) == strategy = "local" /\ last.op = op

\* the part of the filesystem that existed before the last call is as it was
PreKept == \A p \in DOMAIN last.pre : p \in DOMAIN fs /\ fs[p] = last.pre[p]

SomeFileMissing(f) ==
    \E i \in 1..Len(resource.files) : ~IsFile(f, resource.files[i].local_path)

RootResolves == _get_resource_server_root(resource).fault = "none"

\* the last call took the copy path or the zip path of get_resource
CopyOrZipPath ==
    /\ last.op = "get_resource"
    /\ (last.extract => Truthy(last.dest))

\* C9: under the direct-access strategy no call ever invokes a File or
\* Resource fetch, and a copy or zip of a resource with a source file missing
\* from disk ends in a propagated I/O fault.
C9_DirectNeverFetches ==
    strategy = "local" =>
        /\ last.fetches = <<>>
        /\ last.bulk = <<>>
        /\ \A i \in 1..Len(resource.files) : fetched[i] = 0
        /\ (CopyOrZipPath /\ RootResolves /\ SomeFileMissing(last.pre))
            => /\ last.fault \in {"IOError", "OSError"}
               /\ SomeFileMissing(fs)

\* C9 happens: a copy into an existing directory hit a missing source file
C9_Witness ==
    /\ IsLocalCall("get_resource") /\ last.extract
    /\ IsDir(last.pre, last.dest)
    /\ RootResolves
    /\ SomeFileMissing(last.pre)
    /\ last.fault = "IOError"

\* where _copy_resource puts file i
CopyTarget(i) ==
    PathJoin(last.dest, Relpath(resource.files[i].server_path, ServerRoot))

\* C10: direct-access get_resource(extract=True, dest_dir) into an existing
\* directory, every source file present: every file, also one in a
\* sub-directory of the resource root, is copied to dest_dir joined with its
\* path relative to the resource's server root; the call returns those paths
\* in file-list order and leaves the source files unchanged.
C10_CopiesEveryFile ==
    (/\ IsLocalCall("get_resource") /\ last.extract
     /\ IsDir(last.pre, last.dest)
     /\ RootResolves
     /\ ~SomeFileMissing(last.pre))
    => /\ last.fault = "none"
       /\ Len(last.rets) = Len(resource.files)
       /\ \A i \in 1..Len(resource.files) :
            /\ last.rets[i] = CopyTarget(i)
            /\ IsFile(fs, CopyTarget(i))
            /\ fs[CopyTarget(i)] = last.pre[resource.files[i].local_path]
       /\ PreKept

IsMirrorCall(op) == strategy = "mirror" /\ last.op = op

\* the local path of the file the last get_file call was about
LastFilePath == resource.files[last.file].local_path

\* C1: incremental-mirror get_file fetches a file at most once.  A call on a
\* file absent from its local path invokes exactly one fetch of that file,
\* which, if it succeeds, leaves the file there; a call on a file present at
\* its local path invokes no fetch; so of two successive calls on an absent
\* file the first fetches once and the second not at all, and over any
\* sequence of calls no file is successfully fetched twice.
C1_FetchAtMostOnce ==
    strategy = "mirror" =>
        /\ \A i \in 1..Len(resource.files) : fetched[i] <= 1
        /\ last.op = "get_file" =>
            /\ last.bulk = <<>>
            /\ IsFile(last.pre, LastFilePath) => last.fetches = <<>>
            /\ ~IsFile(last.pre, LastFilePath) =>
                /\ Len(last.fetches) = 1
                /\ last.fetches[1].path = LastFilePath
                /\ last.fetches[1].ok => IsFile(fs, LastFilePath)

\* C1 happens: get_file was called again on a file that an earlier call had
\* fetched, and made no fetch
C1_Witness ==
    /\ IsMirrorCall("get_file")
    /\ fetched[last.file] = 1
    /\ IsFile(last.pre, LastFilePath)
    /\ last.fetches = <<>>

\* C2: incremental-mirror get_file completes normally and returns the file's
\* local path, both for a file already on disk and for an absent file after
\* one successful fetch, and the file exists at the returned path.
C2_GetFileReturnsLocalPath ==
    (/\ IsMirrorCall("get_file")
     /\ \/ IsFile(last.pre, LastFilePath)
        \/ last.fetches = <<Fetched(LastFilePath, TRUE)>>)
    => /\ last.fault = "none"
       /\ last.ret = LastFilePath
       /\ IsFile(fs, last.ret)

LocalRoot == _get_resource_local_root(resource)

\* C5: once a get_resource(extract=True) call has returned, having populated
\* the resource's local root directory, a later get_resource(extract=True)
\* on the resource invokes no bulk fetch.
C5_NoBulkFetchOncePopulated ==
    (/\ IsMirrorCall("get_resource") /\ last.extract
     /\ last.was_populated)
    => last.bulk = <<>>

\* C6: incremental-mirror get_resource(extract=False, dest_dir) on a resource
\* whose local root is not an existing file makes exactly one bulk fetch,
\* with extract=False into dest_dir, and no per-file fetch; when it returns,
\* it returns the zip path that fetch reported, the zip there is the
\* server's, and every entry of it lies extracted under the parent directory
\* of the resource's local root.
C6_ZipDelegatesToBulkFetch ==
    (/\ IsMirrorCall("get_resource") /\ ~last.extract /\ Truthy(last.dest)
     /\ LocalRoot.fault = "none"
     /\ ~IsFile(last.pre, LocalRoot.ret))
    => /\ Len(last.bulk) = 1
       /\ last.bulk[1].dest = last.dest
       /\ ~last.bulk[1].extract
       /\ last.fetches = <<>>
       /\ last.fault = "none" =>
            /\ last.bulk[1].ok
            /\ last.ret = BulkZipPath(resource, last.dest)
            /\ IsFile(fs, last.ret)
            /\ fs[last.ret] = ZipNode(ServerZipEntries(resource))
            /\ \A e \in Range(fs[last.ret].entries) :
                 LET p == PathJoin(Dirname(LocalRoot.ret), e[1])
                 IN  IsFile(fs, p) /\ fs[p].data = e[2]

\* C6 happens: a two-file resource with no local root yet was zipped into /o
C6_Witness ==
    /\ IsMirrorCall("get_resource") /\ ~last.extract /\ last.dest = DestDir
    /\ LocalRoot.fault = "none"
    /\ ~Exists(last.pre, LocalRoot.ret)
    /\ Len(resource.files) >= 2
    /\ last.fault = "none"
    /\ \A i \in 1..Len(resource.files) :
         IsFile(fs, resource.files[i].local_path)

\* C7: whenever incremental-mirror get_resource(extract=True, dest_dir)
\* returns, it returns one path per resource file, each the file's path
\* relative to the resource's local root joined onto dest_dir, and each names
\* a file that exists in dest_dir.
C7_CopyReturnsExistingFiles ==
    (/\ IsMirrorCall("get_resource") /\ last.extract /\ Truthy(last.dest)
     /\ last.fault = "none")
    => /\ Len(last.rets) = Len(resource.files)
       /\ \A i \in 1..Len(resource.files) :
            /\ last.rets[i] =
                 PathJoin(last.dest,
                          Relpath(resource.files[i].local_path, LocalRoot.ret))
            /\ IsFile(fs, last.rets[i])

\* get_resource(extract=False) has returned a path
ZipReturned ==
    /\ last.op = "get_resource" /\ ~last.extract
    /\ last.fault = "none"

\* the zip was built by the archive: direct access, or a mirror whose
\* resource root is a file
BuiltLocally == strategy = "local" \/ IsFile(last.pre, LocalRoot.ret)

C12_PassThroughUnderLocalRoot ==
    (/\ last.op = "local_path"
     /\ ~Truthy(archive_root))
    => /\ last.fault = "none"
       /\ StartsWith(last.ret, rootdir)
       /\ EndsWith(last.ret, last.arg)

\* the file that the resource does not list
ExtraFile == LocalRootOf(rootdir, archive_root) \o <<"/", "e">>

\* C13: the incremental mirror never prunes: whatever the call, every file
\* that existed before it still exists after it.
C13_MirrorNeverPrunes ==
    strategy = "mirror" =>
        \A p \in DOMAIN last.pre : IsFile(last.pre, p) => IsFile(fs, p)

\* C13 happens: a copy to /o with a bulk fetch ran over a mirror that held a
\* listed file and a file the resource does not list, and both are still there
C13_Witness ==
    /\ IsMirrorCall("get_resource") /\ last.extract /\ Truthy(last.dest)
    /\ last.fault = "none"
    /\ Len(last.bulk) = 1
    /\ IsFile(last.pre, ExtraFile)
    /\ IsFile(fs, ExtraFile)
    /\ \E i \in 1..Len(resource.files) :
         IsFile(last.pre, resource.files[i].local_path)

\* C14: the test for the file and its fetch are two steps with no lock
\* between them: two callers can both see an absent file absent and both
\* fetch it, and that is the only way a file is ever fetched twice; calls
\* that do not overlap between the test and the fetch fetch it at most once.
C14_TwiceOnlyWhenOverlapping ==
    \A i \in 1..Len(resource.files) :
        /\ fetched[i] <= Cardinality(Callers)
        /\ fetched[i] > 1 => i \in race.overlap

\* C14 happens: both callers ran get_file on the same file, which was not on
\* disk, and each of them fetched it
C14_Witness ==
    \E i \in 1..Len(resource.files) :
        /\ fetched[i] = 2
        /\ \A c \in Callers :
             /\ race.of[c].op = "get_file"
             /\ race.of[c].i = i
             /\ race.of[c].pc = "return"

\* and so did two callers of _fill_resource_holes
C14_WitnessFill ==
    \E i \in 1..Len(resource.files) :
        /\ fetched[i] = 2
        /\ \A c \in Callers : race.of[c].op = "_fill_resource_holes"

\* the fetches of the last call that asked for path p
FetchesOf(p) == {k \in 1..Len(last.fetches) : last.fetches[k].path = p}

NoFetchFailed == \A k \in 1..Len(last.fetches) : last.fetches[k].ok

\* C15: _fill_resource_holes, whatever files are on disk and the fetches
\* succeeding: fetches each absent file exactly once and no file that is
\* present, deletes nothing, returns the local path of every file of the
\* resource in file-list order, and leaves every file present.
C15_FillFetchesExactlyTheHoles ==
    (IsMirrorCall("_fill_resource_holes") /\ NoFetchFailed)
    => /\ last.fault = "none"
       /\ \A i \in 1..Len(resource.files) :
            LET p == resource.files[i].local_path
            IN  /\ Cardinality(FetchesOf(p)) =
                      IF IsFile(last.pre, p) THEN 0 ELSE 1
                /\ IsFile(fs, p)
       /\ Len(last.fetches) =
            Cardinality({i \in 1..Len(resource.files) :
                            ~IsFile(last.pre, resource.files[i].local_path)})
       /\ PreKept
       /\ last.rets = LocalPaths(resource)
       /\ last.bulk = <<>>

\* C15 happens: of two files one was on disk and one was not, and the call
\* returned after fetching the one
C15_Witness ==
    /\ IsMirrorCall("_fill_resource_holes")
    /\ last.fault = "none"
    /\ Len(last.fetches) = 1
    /\ \E i, j \in 1..Len(resource.files) :
         /\ IsFile(last.pre, resource.files[i].local_path)
         /\ ~IsFile(last.pre, resource.files[j].local_path)
         /\ IsFile(fs, resource.files[j].local_path)

\* C16: _get_resource_files, the resource's local root resolving: if the
\* root is a file it only fills holes (no bulk fetch) and returns the
\* hole-filling list; otherwise it makes exactly one bulk fetch, extracting,
\* into the root, no per-file fetch, and returns what the bulk fetch
\* reports.  Either way all files are present when it returns.
C16_ChoosesByRootState ==
    (IsMirrorCall("_get_resource_files") /\ RootResolves)
    => /\ IF IsFile(last.pre, LocalRoot.ret)
          THEN /\ last.bulk = <<>>
               /\ last.fault = "none" => last.rets = LocalPaths(resource)
               /\ \A k \in 1..Len(last.fetches) :
                    \E i \in 1..Len(resource.files) :
                        /\ last.fetches[k].path = resource.files[i].local_path
                        /\ ~IsFile(last.pre, last.fetches[k].path)
          ELSE /\ last.bulk = <<Bulk(LocalRoot.ret, TRUE, last.fault = "none")>>
               /\ last.fetches = <<>>
               /\ last.fault = "none" =>
                    last.rets = BulkPaths(resource, LocalRoot.ret)
       /\ last.fault = "none" =>
            \A i \in 1..Len(resource.files) :
                IsFile(fs, resource.files[i].local_path)

\* C16 happens: the root was a file, a file of the resource was missing, and
\* the call returned the list after fetching it
C16_Witness ==
    /\ IsMirrorCall("_get_resource_files")
    /\ RootResolves
    /\ IsFile(last.pre, LocalRoot.ret)
    /\ last.fault = "none"
    /\ Len(last.fetches) >= 1
    /\ Len(last.rets) = MaxFiles

\* and the other branch: the root was a directory with a file missing
C16_WitnessBulk ==
    /\ IsMirrorCall("_get_resource_files")
    /\ RootResolves
    /\ IsDir(last.pre, LocalRoot.ret)
    /\ last.fault = "none"
    /\ Len(last.bulk) = 1
    /\ \E i \in 1..Len(resource.files) :
         ~IsFile(last.pre, resource.files[i].local_path)

\* the last call was get_resource(resource, extract=True, dest_dir) on the
\* mirror, the resource's root resolving and dest_dir not there before
IsMirrorCopy ==
    /\ IsMirrorCall("get_resource") /\ last.extract /\ Truthy(last.dest)
    /\ RootResolves
    /\ ~Exists(last.pre, last.dest)

\* what lies below dest_dir is what lay below the resource's local root
\* before the call, file for file: nothing the call fetched got copied
DestIsCopyOfPre ==
    /\ Below(fs, last.dest) =
         {last.dest \o SliceFrom(q, Len(LocalRoot.ret)) :
            q \in Below(last.pre, LocalRoot.ret)}
    /\ \A q \in Below(last.pre, LocalRoot.ret) :
         fs[last.dest \o SliceFrom(q, Len(LocalRoot.ret))] = last.pre[q]

\* the ordering alone: the copy is taken of the tree as it was before any
\* fetch of the call
C17_CopyPrecedesFetch == IsMirrorCopy => DestIsCopyOfPre

\* C17: in mirror get_resource(resource, extract=True, dest_dir) the copy of
\* the local root tree into dest_dir is made before any fetch of the call and
\* nothing is copied after the fetch; for a resource with a file not yet on
\* disk the copy leaves an empty or partial tree in dest_dir and the call goes
\* on to _get_resource_files, which fetches.
C17_CopyThenFetchGoesOn ==
    IsMirrorCopy
    => /\ DestIsCopyOfPre
       /\ SomeFileMissing(last.pre) =>
            /\ IsDir(fs, last.dest)
            /\ Len(last.bulk) + Len(last.fetches) >= 1

\* the last call was get_resource(resource, extract=False, dest_dir) on the
\* mirror, the resource's root resolving: _zip_resource got to os.makedirs
IsMirrorZip ==
    /\ IsMirrorCall("get_resource") /\ ~last.extract
    /\ RootResolves

\* the dest_dir that _zip_resource was given
ZipDest == IF Truthy(last.dest) THEN last.dest ELSE <<".">>

\* os.makedirs(dest_dir) failed, and not because dest_dir was there: it was
\* not there before the call and is not there after it
MakeDirsFailed == ~Exists(last.pre, ZipDest) /\ ~Exists(fs, ZipDest)

SomeFetchFailed ==
    \/ \E k \in 1..Len(last.fetches) : ~last.fetches[k].ok
    \/ \E k \in 1..Len(last.bulk) : ~last.bulk[k].ok

\* what does hold: a dest_dir that is there is no fault, and a failed fetch,
\* zip write or extraction ends the call with a fault and no path
C18_LaterFaultsPropagate ==
    IsMirrorZip
    => /\ IsDir(last.pre, ZipDest) => last.fault # "OSError"
       /\ SomeFetchFailed => last.fault # "none"
       /\ last.fault # "none" => last.ret = <<>>
       /\ last.fault = "none" => IsFile(fs, last.ret)

\* C18: in mirror zip building a dest_dir that is already there does not
\* fail the call at its creation, and every other fault ends the call with
\* an error and no path: a failed fetch, a failed zip write or extraction,
\* and a failure to create dest_dir, which is raised as it is, before
\* anything is fetched.
C18_OnlyExistsIsSuppressed ==
    IsMirrorZip
    => /\ IsDir(last.pre, ZipDest) => last.fault # "OSError"
       /\ SomeFetchFailed => last.fault # "none"
       /\ last.fault # "none" => last.ret = <<>>
       /\ MakeDirsFailed =>
            /\ last.fault = "OSError"
            /\ last.fetches = <<>>
            /\ last.bulk = <<>>

C19_WitnessPastCopy ==
    /\ IsMirrorCopy
    /\ IsDir(last.pre, LocalRoot.ret)
    /\ last.fault = "none"
    /\ Len(last.bulk) = 1

====
